---- MODULE Spec2Model ----
(***************************************************************************)
(* Model of src/app/components/CityTimelapse.tsx: the looping timeline     *)
(* (phase, remap, easing), the five per-frame callbacks registered with    *)
(* useFrame, and the footprint generation of the Buildings component.      *)
(*                                                                         *)
(* Numbers.  JavaScript numbers are modelled as exact rationals <<n, d>>   *)
(* in lowest terms with d > 0.  Elapsed time is sampled on a grid of       *)
(* 1/TicksPerSecond seconds.  Math.sin is modelled by the rational         *)
(* approximation SinApprox (absolute error below 0.01), and Math.PI stays  *)
(* symbolic in the camera angle, which is kept as  rat + pi * Math.PI.     *)
(***************************************************************************)
EXTENDS Integers, Sequences, FiniteSets, TLC

\* ------------------------------------------------------------------ bounds
TicksPerSecond == 10
MaxCycles == 2
MaxStep == 2

\* -------------------------------------------------------- program constants
CYCLE_SECONDS == 22

\* ------------------------------------------------------ rational arithmetic
Abs(x) == IF x < 0 THEN -x ELSE x

RECURSIVE GCD(_, _)
GCD(a, b) == IF b = 0 THEN a ELSE GCD(b, a % b)

\* n/d in lowest terms, d > 0
R(n, d) ==
    LET s == IF d < 0 THEN -1 ELSE 1
        g == GCD(Abs(n), Abs(d))
    IN  <<(s * n) \div g, (s * d) \div g>>

I(n) == <<n, 1>>

RMul(a, b) ==
    LET g1 == GCD(Abs(a[1]), b[2])
        g2 == GCD(Abs(b[1]), a[2])
    IN  R((a[1] \div g1) * (b[1] \div g2), (a[2] \div g2) * (b[2] \div g1))

RAdd(a, b) ==
    LET g == GCD(a[2], b[2])
    IN  R(a[1] * (b[2] \div g) + b[1] * (a[2] \div g), (a[2] \div g) * b[2])

RNeg(a) == <<-a[1], a[2]>>
RSub(a, b) == RAdd(a, RNeg(b))
RDiv(a, b) == RMul(a, R(b[2], b[1]))
\* n1/d1 < n2/d2 for d1, d2 > 0, by comparing the continued fractions, so
\* that no product is formed
RECURSIVE Less(_, _, _, _)
Less(n1, d1, n2, d2) ==
    IF n1 \div d1 # n2 \div d2 THEN n1 \div d1 < n2 \div d2
    ELSE IF n2 % d2 = 0 THEN FALSE
    ELSE IF n1 % d1 = 0 THEN TRUE
    ELSE Less(d2, n2 % d2, d1, n1 % d1)

RLt(a, b) == Less(a[1], a[2], b[1], b[2])
RLe(a, b) == ~RLt(b, a)
RMin(a, b) == IF RLe(a, b) THEN a ELSE b
RMax(a, b) == IF RLe(a, b) THEN b ELSE a
RAbs(a) == <<Abs(a[1]), a[2]>>
\* Math.floor
RFloor(a) == a[1] \div a[2]
\* truncation toward zero, as in the JavaScript remainder
RTrunc(a) == IF a[1] >= 0 THEN a[1] \div a[2] ELSE -((-a[1]) \div a[2])
\* JavaScript a % m: the result takes the sign of the dividend
JsRem(a, m) == RSub(a, RMul(m, I(RTrunc(RDiv(a, m)))))

\* ---------------------------------------------------------------- Math.sin
\* x >= 0 in radians.  The argument is reduced to 1/500ths of a half turn
\* with pi ~ 355/113, then Bhaskara's formula is applied on the half turn.
SinBhaskara(v) == (16000 * v * (500 - v)) \div (1250000 - 4 * v * (500 - v))

SinApprox(x) ==
    LET k == RFloor(RMul(x, R(500 * 113, 355)))
        u == k % 1000
    IN  IF u < 500 THEN R(SinBhaskara(u), 1000) ELSE R(-SinBhaskara(u - 500), 1000)

\* ---------------------------------------------------------------- timeline
easeInOut(t) ==
    IF RLt(t, R(1, 2))
    THEN RMul(I(2), RMul(t, t))
    ELSE RAdd(I(-1), RMul(RSub(I(4), RMul(I(2), t)), t))

\* clamp01 without its upper bound
clamp01NoUpper(x) == RMax(I(0), x)

clamp01(x) == RMin(I(1), RMax(I(0), x))

remap(x, inMin, inMax) == clamp01(RDiv(RSub(x, inMin), RSub(inMax, inMin)))

\* clock.getElapsedTime() in seconds, for a clock reading of n ticks
Seconds(n) == R(n, TicksPerSecond)

\* the phase without the remainder
PhaseNoMod(t) == RDiv(t, I(CYCLE_SECONDS))

\* (t % CYCLE_SECONDS) / CYCLE_SECONDS
Phase(t) == RDiv(JsRem(t, I(CYCLE_SECONDS)), I(CYCLE_SECONDS))

\* ------------------------------------------------------------------- state
VARIABLES
    clock,          \* clock.getElapsedTime(), in ticks
    pc,             \* the next step of the render loop
    height,         \* heights[i] of the building instance that is followed
    blueprint,      \* locals of BlueprintOverlay's frame callback
    gridMat,        \* BlueprintOverlay: mat
    buildings,      \* locals of Buildings' frame callback
    instance,       \* Buildings: the matrices composed for instance i
    fdMat, fMat, sMat,
    roads,          \* locals of RoadsAndParks' frame callback
    matRoad, matSidewalk, matTreeTrunk, matTreeLeaf,
    cranes,         \* locals of SimpleCranes' frame callback
    craneMat,       \* SimpleCranes: mat
    craneRot,       \* SimpleCranes: child.rotation.y of the three cranes
    cam,            \* locals of CameraRig's frame callback
    camera,         \* camera.position, in polar form
    gx, gz,         \* footprint generation: the loop counters x and z
    genPc,          \* footprint generation: position in the loop
    pushed,         \* footprint generation: the footprint pushed last
    count           \* footprint generation: positions.length

frameVars == <<clock, pc, height, blueprint, gridMat, buildings, instance,
               fdMat, fMat, sMat, roads, matRoad, matSidewalk, matTreeTrunk,
               matTreeLeaf, cranes, craneMat, craneRot, cam, camera>>
genVars == <<gx, gz, genPc, pushed, count>>
vars == <<frameVars, genVars>>

\* A material as THREE constructs it: opaque, not transparent.
NewMaterial == [opacity |-> I(1), transparent |-> FALSE]

\* t = -1 marks a callback that has not run yet.
NotRun == I(-1)

\* --------------------------------------------------- BlueprintOverlay frame
BlueprintAppear(phase) == clamp01(remap(phase, R(2, 10), R(4, 10)))

BlueprintLocals(t) ==
    LET phase == Phase(t)
        pulse == RAdd(R(6, 10), RMul(R(4, 10), SinApprox(RMul(t, R(22, 10)))))
    IN  [t |-> t, phase |-> phase, pulse |-> pulse, appear |-> BlueprintAppear(phase)]

BlueprintMat(l) == [opacity |-> RMul(l.appear, l.pulse), transparent |-> TRUE]

BlueprintFrame ==
    /\ pc = "BlueprintOverlay"
    /\ blueprint' = BlueprintLocals(Seconds(clock))
    /\ gridMat' = BlueprintMat(blueprint')
    /\ pc' = "Buildings"
    /\ UNCHANGED <<clock, height, buildings, instance, fdMat, fMat, sMat, roads,
                   matRoad, matSidewalk, matTreeTrunk, matTreeLeaf, cranes,
                   craneMat, craneRot, cam, camera, genVars>>

\* ---------------------------------------------------------- Buildings frame
\* the frame offset added instead of subtracted
BuildingsProgressFrameAhead(phase) ==
    LET construct == remap(phase, R(4, 10), R(7, 10))
        finish == remap(phase, R(7, 10), I(1))
    IN  [construct |-> construct, finish |-> finish,
         foundationRise |-> easeInOut(construct),
         frameRise |-> easeInOut(clamp01(RAdd(RMul(construct, R(11, 10)), R(15, 100)))),
         skinAppear |-> easeInOut(finish)]

BuildingsProgress(phase) ==
    LET construct == remap(phase, R(4, 10), R(7, 10))
        finish == remap(phase, R(7, 10), I(1))
    IN  [construct |-> construct, finish |-> finish,
         foundationRise |-> easeInOut(construct),
         frameRise |-> easeInOut(clamp01(RSub(RMul(construct, R(11, 10)), R(15, 100)))),
         skinAppear |-> easeInOut(finish)]

BuildingsLocals(t) ==
    LET phase == Phase(t)
        p == BuildingsProgress(phase)
    IN  [t |-> t, phase |-> phase, construct |-> p.construct, finish |-> p.finish,
         foundationRise |-> p.foundationRise, frameRise |-> p.frameRise,
         skinAppear |-> p.skinAppear]

\* the y position and y scale of the three boxes of one instance
InstanceMatrices(l, h) ==
    LET foundationHeight == RMax(R(2, 10), RMul(R(6, 10), l.foundationRise))
        frameH == RMul(I(h), l.frameRise)
        skinH == RMul(I(h), clamp01(l.skinAppear))
    IN  [foundationY |-> RDiv(foundationHeight, I(2)), foundationScaleY |-> foundationHeight,
         frameY |-> RDiv(frameH, I(2)), frameScaleY |-> RMax(R(1, 100), frameH),
         skinY |-> RDiv(skinH, I(2)), skinScaleY |-> RMax(R(1, 100), skinH)]

FoundationOpacity(l) ==
    RMul(RMul(R(9, 10), l.foundationRise), RSub(I(1), RMul(R(2, 10), l.skinAppear)))
FrameOpacity(l) == clamp01(RMul(l.frameRise, RSub(I(1), RMul(R(6, 10), l.skinAppear))))
SkinOpacity(l) == clamp01(RAdd(R(15, 100), RMul(R(85, 100), l.skinAppear)))

BuildingsFrame ==
    /\ pc = "Buildings"
    /\ buildings' = BuildingsLocals(Seconds(clock))
    /\ instance' = InstanceMatrices(buildings', height)
    /\ fdMat' = [opacity |-> FoundationOpacity(buildings'), transparent |-> TRUE]
    /\ fMat' = [opacity |-> FrameOpacity(buildings'), transparent |-> TRUE]
    /\ sMat' = [opacity |-> SkinOpacity(buildings'), transparent |-> TRUE]
    /\ pc' = "RoadsAndParks"
    /\ UNCHANGED <<clock, height, blueprint, gridMat, roads, matRoad, matSidewalk,
                   matTreeTrunk, matTreeLeaf, cranes, craneMat, craneRot, cam,
                   camera, genVars>>

\* ------------------------------------------------------ RoadsAndParks frame
RoadsAppear(phase) == easeInOut(remap(phase, R(7, 10), I(1)))

\* the road callback with elapsed cycles in place of the phase
RoadsLocalsNoMod(t) ==
    LET phase == RDiv(t, I(CYCLE_SECONDS))
    IN  [t |-> t, phase |-> phase, appear |-> RoadsAppear(phase)]

RoadsLocals(t) ==
    LET phase == Phase(t)
    IN  [t |-> t, phase |-> phase, appear |-> RoadsAppear(phase)]

RoadsFrame ==
    /\ pc = "RoadsAndParks"
    /\ roads' = RoadsLocals(Seconds(clock))
    /\ matRoad' = [opacity |-> RMul(R(9, 10), roads'.appear), transparent |-> TRUE]
    /\ matSidewalk' = [opacity |-> RMul(R(8, 10), roads'.appear), transparent |-> TRUE]
    /\ matTreeTrunk' = [opacity |-> roads'.appear, transparent |-> TRUE]
    /\ matTreeLeaf' = [opacity |-> roads'.appear, transparent |-> TRUE]
    /\ pc' = "SimpleCranes"
    /\ UNCHANGED <<clock, height, blueprint, gridMat, buildings, instance, fdMat,
                   fMat, sMat, cranes, craneMat, craneRot, cam, camera, genVars>>

\* ------------------------------------------------------- SimpleCranes frame
CranesAppear(phase) == remap(phase, R(4, 10), R(7, 10))

CranesLocals(t) ==
    LET phase == Phase(t)
    IN  [t |-> t, phase |-> phase, appear |-> CranesAppear(phase)]

CraneRotation(t, i) == RMul(SinApprox(RAdd(RMul(t, R(3, 10)), I(i))), R(2, 10))

CraneOpacity(l) ==
    RMul(RMul(l.appear, R(8, 10)), RSub(I(1), remap(l.phase, R(7, 10), I(1))))

CranesFrame ==
    /\ pc = "SimpleCranes"
    /\ cranes' = CranesLocals(Seconds(clock))
    /\ craneRot' = [i \in 0..2 |-> CraneRotation(Seconds(clock), i)]
    /\ craneMat' = [opacity |-> CraneOpacity(cranes'), transparent |-> TRUE]
    /\ pc' = "CameraRig"
    /\ UNCHANGED <<clock, height, blueprint, gridMat, buildings, instance, fdMat,
                   fMat, sMat, roads, matRoad, matSidewalk, matTreeTrunk,
                   matTreeLeaf, cam, camera, genVars>>

\* ---------------------------------------------------------- CameraRig frame
CameraOrbit(phase) == RAdd(R(2, 10), RMul(R(8, 10), easeInOut(remap(phase, I(0), I(1)))))

CameraLocals(t) ==
    LET phase == Phase(t)
    IN  [t |-> t, phase |-> phase, input |-> remap(phase, I(0), I(1)),
         orbit |-> CameraOrbit(phase)]

\* camera.position.set(cos(angle) * radius, y, sin(angle) * radius) with
\* angle = angleRat + anglePi * Math.PI
CameraPosition(l) ==
    [radius |-> I(90),
     angleRat |-> RMul(l.t, R(12, 100)),
     anglePi |-> RMul(l.orbit, R(15, 10)),
     y |-> RAdd(I(25), RMul(SinApprox(RMul(l.t, R(25, 100))), I(6)))]

CameraFrame ==
    /\ pc = "CameraRig"
    /\ cam' = CameraLocals(Seconds(clock))
    /\ camera' = CameraPosition(cam')
    /\ pc' = "idle"
    /\ UNCHANGED <<clock, height, blueprint, gridMat, buildings, instance, fdMat,
                   fMat, sMat, roads, matRoad, matSidewalk, matTreeTrunk,
                   matTreeLeaf, cranes, craneMat, craneRot, genVars>>

\* ------------------------------------------------------------- render loop
\* The host calls the callbacks once per animation frame, in mount order;
\* between two frames the clock advances.
MaxClock == MaxCycles * CYCLE_SECONDS * TicksPerSecond

NextAnimationFrame ==
    /\ pc = "idle"
    /\ \E dt \in 1..MaxStep :
          /\ clock + dt <= MaxClock
          /\ clock' = clock + dt
    /\ pc' = "BlueprintOverlay"
    /\ UNCHANGED <<height, blueprint, gridMat, buildings, instance, fdMat, fMat,
                   sMat, roads, matRoad, matSidewalk, matTreeTrunk, matTreeLeaf,
                   cranes, craneMat, craneRot, cam, camera, genVars>>

\* h = 4 + Math.floor(Math.random() * 18)
\* the least and the greatest height
HeightSamples == {4, 21}


\* ---------------------------------------------------- footprint generation
\* Math.random() on a grid: k / RandomGrid for k in 0 .. RandomGrid - 1
RandomGrid == 4
Random == {R(k, RandomGrid) : k \in 0..(RandomGrid - 1)}

\* the road test on x alone
SkipCellXOnly(x, z) == JsRem(I(x), I(16)) = I(0)

\* leave space for roads every 16 units
SkipCell(x, z) == JsRem(I(x), I(16)) = I(0) \/ JsRem(I(z), I(16)) = I(0)

Jitter(r) == RSub(RMul(r, R(15, 10)), R(75, 100))

Footprint(x, z, rx, rz, rh) ==
    [x |-> RAdd(I(x), Jitter(rx)), z |-> RAdd(I(z), Jitter(rz)),
     h |-> 4 + RFloor(RMul(rh, I(18)))]

\* z += 8 of the inner loop, then x += 8 of the outer loop
GenAdvance ==
    IF gz + 8 <= 40
    THEN gx' = gx /\ gz' = gz + 8 /\ genPc' = "loop"
    ELSE /\ gx' = gx + 8
         /\ gz' = IF gx + 8 <= 40 THEN -40 ELSE gz + 8
         /\ genPc' = IF gx + 8 <= 40 THEN "loop" ELSE "done"

GenSkip ==
    /\ genPc = "loop"
    /\ SkipCell(gx, gz)
    /\ GenAdvance
    /\ UNCHANGED <<pushed, count, frameVars>>

GenPush ==
    /\ genPc = "loop"
    /\ ~SkipCell(gx, gz)
    /\ \E rx \in Random, rz \in Random, rh \in Random :
          pushed' = Footprint(gx, gz, rx, rz, rh)
    /\ count' = count + 1
    /\ GenAdvance
    /\ UNCHANGED frameVars

\* the road strips of RoadsAndParks: centre lines x = i and z = i
RoadLines == {-48 + 16 * k : k \in 0..6}
\* half the road width (3.2) and half the side of a building's skin (2.8)
RoadHalfWidth == R(16, 10)
SkinHalfSide == R(14, 10)
\* a square centred at coordinate c meets the strip centred on line i
OnRoad(c, i) == RLe(RAbs(RSub(c, I(i))), RAdd(RoadHalfWidth, SkinHalfSide))

GenStart ==
    /\ gx = -40 /\ gz = -40 /\ genPc = "loop" /\ pushed = <<>> /\ count = 0

\* the generation has run: 36 footprints, the last one in the cell (40, 40)
GenIdle ==
    /\ gx = 48 /\ gz = 48 /\ genPc = "done" /\ count = 36
    /\ pushed = [x |-> I(40), z |-> I(40), h |-> height]

InitFrames ==
    /\ clock = 0
    /\ pc = "BlueprintOverlay"
    /\ height \in HeightSamples
    /\ blueprint = [t |-> NotRun, phase |-> I(0), pulse |-> I(0), appear |-> I(0)]
    /\ gridMat = NewMaterial
    /\ buildings = [t |-> NotRun, phase |-> I(0), construct |-> I(0), finish |-> I(0),
                    foundationRise |-> I(0), frameRise |-> I(0), skinAppear |-> I(0)]
    /\ instance = [foundationY |-> I(0), foundationScaleY |-> I(1), frameY |-> I(0),
                   frameScaleY |-> I(1), skinY |-> I(0), skinScaleY |-> I(1)]
    /\ fdMat = NewMaterial /\ fMat = NewMaterial /\ sMat = NewMaterial
    /\ roads = [t |-> NotRun, phase |-> I(0), appear |-> I(0)]
    /\ matRoad = NewMaterial /\ matSidewalk = NewMaterial
    /\ matTreeTrunk = NewMaterial /\ matTreeLeaf = NewMaterial
    /\ cranes = [t |-> NotRun, phase |-> I(0), appear |-> I(0)]
    /\ craneMat = NewMaterial
    /\ craneRot = [i \in 0..2 |-> I(0)]
    /\ cam = [t |-> NotRun, phase |-> I(0), input |-> I(0), orbit |-> I(0)]
    /\ camera = [radius |-> I(0), angleRat |-> I(0), anglePi |-> I(0), y |-> I(0)]

Init == InitFrames /\ GenIdle

Next ==
    \/ NextAnimationFrame
    \/ BlueprintFrame
    \/ BuildingsFrame
    \/ RoadsFrame
    \/ CranesFrame
    \/ CameraFrame

Spec == Init /\ [][Next]_vars

\* the useMemo initializer of Buildings, before the first frame
NextGen == GenSkip \/ GenPush

InitGen == InitFrames /\ GenStart

SpecGen == InitGen /\ [][NextGen]_vars

\* =================================================================== claims
Ran(l) == RLe(I(0), l.t)
In01(v) == RLe(I(0), v) /\ RLe(v, I(1))
IsPhase(v) == RLe(I(0), v) /\ RLt(v, I(1))
NextCycle(t) == RAdd(t, I(CYCLE_SECONDS))

\* C1: loop seamlessness.  In a frame at phase 0 every derived progress value
\* equals the value it approaches at the end of the cycle, which is its value
\* at phase 1, every progress curve being continuous on [0, 1].
C1_LoopSeamless ==
    /\ (Ran(blueprint) /\ blueprint.phase = I(0))
          => blueprint.appear = BlueprintAppear(I(1))
    /\ (Ran(buildings) /\ buildings.phase = I(0))
          => /\ buildings.foundationRise = BuildingsProgress(I(1)).foundationRise
             /\ buildings.frameRise = BuildingsProgress(I(1)).frameRise
             /\ buildings.skinAppear = BuildingsProgress(I(1)).skinAppear
    /\ (Ran(roads) /\ roads.phase = I(0)) => roads.appear = RoadsAppear(I(1))
    /\ (Ran(cranes) /\ cranes.phase = I(0))
          => craneMat.opacity = CraneOpacity([appear |-> CranesAppear(I(1)), phase |-> I(1)])
    /\ (Ran(cam) /\ cam.phase = I(0)) => cam.orbit = CameraOrbit(I(1))

\* C2: in every frame whose phase lies outside the blueprint window
\* [0.20, 0.40] the opacity written to the blueprint grid material is 0.
C2_BlueprintOnlyInWindow ==
    (Ran(blueprint) /\ (RLt(blueprint.phase, R(2, 10)) \/ RLt(R(4, 10), blueprint.phase)))
        => gridMat.opacity = I(0)

\* C3: at t = 5 s the blueprint grid opacity is strictly positive; at
\* t = 20 s the skin opacity is near 1 (at least 0.8) and the blueprint grid
\* opacity is 0.
C3_Scenario ==
    /\ blueprint.t = I(5) => RLt(I(0), gridMat.opacity)
    /\ buildings.t = I(20) => RLe(R(8, 10), sMat.opacity)
    /\ blueprint.t = I(20) => gridMat.opacity = I(0)

\* the camera angle in radians with Math.PI ~ 355/113
PiApprox == R(355, 113)
AngleOf(c) == RAdd(c.angleRat, RMul(c.anglePi, PiApprox))
\* the distance between two angles, modulo a full turn
AngDist(c1, c2) ==
    LET turn == RMul(I(2), PiApprox)
        r == RAbs(JsRem(RSub(AngleOf(c2), AngleOf(c1)), turn))
    IN  RMin(r, RSub(turn, r))

\* C4: the camera circles without jumping.  Between two consecutive frames
\* dt seconds apart the orbit angle, modulo a full turn, moves by at most
\* dt / 2 radians (the angle's rate of change is below 0.47 rad/s wherever
\* it is continuous), the pair of frames that straddles the wrap included.
C4_CameraContinuous ==
    [][(Ran(cam) /\ cam'.t # cam.t)
          => RLe(AngDist(camera, camera'), RMul(R(1, 2), RSub(cam'.t, cam.t)))]_vars

\* C5 as stated: at every phase the frame rise is at most the foundation
\* rise and the skin appearance is at most the frame rise.
C5_StagesOrdered ==
    Ran(buildings) =>
        /\ RLe(buildings.frameRise, buildings.foundationRise)
        /\ RLe(buildings.skinAppear, buildings.frameRise)

\* C5 amended: at every phase the frame rise is at most the foundation rise
\* and the skin appearance is at most the foundation rise; the skin
\* appearance is at most the frame rise up to phase 0.985, and never exceeds
\* it by more than 0.005 (the frame rise ends at 0.995).
C5_StagesOrderedAmended ==
    Ran(buildings) =>
        /\ RLe(buildings.frameRise, buildings.foundationRise)
        /\ RLe(buildings.skinAppear, buildings.foundationRise)
        /\ RLe(buildings.phase, R(985, 1000))
              => RLe(buildings.skinAppear, buildings.frameRise)
        /\ RLe(buildings.skinAppear, RAdd(buildings.frameRise, R(5, 1000)))
        /\ RLe(buildings.frameRise, R(995, 1000))

C5_Witness ==
    /\ Ran(buildings)
    /\ RLt(I(0), buildings.frameRise)
    /\ RLt(buildings.frameRise, buildings.foundationRise)
    /\ RLt(buildings.foundationRise, I(1))

\* C6: every derived progress value of the frame callbacks lies in [0, 1],
\* and the phase each callback computes lies in [0, 1).
C6_ProgressIn01 ==
    /\ In01(blueprint.appear)
    /\ In01(buildings.construct) /\ In01(buildings.finish)
    /\ In01(buildings.foundationRise) /\ In01(buildings.frameRise)
    /\ In01(buildings.skinAppear)
    /\ In01(roads.appear)
    /\ In01(cranes.appear)
    /\ In01(cam.input)
    /\ IsPhase(blueprint.phase) /\ IsPhase(buildings.phase) /\ IsPhase(roads.phase)
    /\ IsPhase(cranes.phase) /\ IsPhase(cam.phase)

C6_Witness ==
    /\ Ran(blueprint) /\ blueprint.appear = I(1) /\ RLt(R(4, 10), blueprint.phase)
    /\ Ran(buildings) /\ RLt(I(0), buildings.construct) /\ RLt(buildings.construct, I(1))

\* C7: no footprint pushed by the Buildings initializer has its square base
\* (side 2.8) meeting a road strip (width 3.2) on either axis.
C7_NoBuildingOnRoad ==
    pushed # <<>> =>
        \A i \in RoadLines : ~OnRoad(pushed.x, i) /\ ~OnRoad(pushed.z, i)

C7_Witness ==
    /\ pushed # <<>>
    /\ pushed.x = R(-875, 100)
    /\ pushed.z = R(-2475, 100)

SamePosition(c1, c2) ==
    /\ c1.radius = c2.radius
    /\ c1.y = c2.y
    /\ c1.angleRat = c2.angleRat
    /\ \E k \in -4..4 : RSub(c1.anglePi, c2.anglePi) = I(2 * k)

\* the part of C8 that holds: what the Buildings, RoadsAndParks callbacks
\* write, and the crane opacity, is the same one cycle later
C8_PhasePureAmended ==
    /\ Ran(buildings) =>
          LET l == BuildingsLocals(NextCycle(buildings.t))
          IN  /\ instance = InstanceMatrices(l, height)
              /\ fdMat.opacity = FoundationOpacity(l)
              /\ fMat.opacity = FrameOpacity(l)
              /\ sMat.opacity = SkinOpacity(l)
    /\ Ran(roads) =>
          LET l == RoadsLocals(NextCycle(roads.t))
          IN  /\ matRoad.opacity = RMul(R(9, 10), l.appear)
              /\ matSidewalk.opacity = RMul(R(8, 10), l.appear)
              /\ matTreeTrunk.opacity = l.appear
              /\ matTreeLeaf.opacity = l.appear
    /\ Ran(cranes) => craneMat.opacity = CraneOpacity(CranesLocals(NextCycle(cranes.t)))

\* C8 as stated: for two elapsed times one cycle apart the callbacks write
\* the same opacity, scale and position for every element.
C8_PhasePure ==
    /\ C8_PhasePureAmended
    /\ Ran(blueprint) => gridMat = BlueprintMat(BlueprintLocals(NextCycle(blueprint.t)))
    /\ Ran(cranes) =>
          craneRot = [i \in 0..2 |-> CraneRotation(NextCycle(cranes.t), i)]
    /\ Ran(cam) => SamePosition(camera, CameraPosition(CameraLocals(NextCycle(cam.t))))

C8_Witness ==
    /\ Ran(buildings) /\ RLe(I(CYCLE_SECONDS), buildings.t)
    /\ RLt(I(0), buildings.skinAppear) /\ RLt(buildings.skinAppear, I(1))
    /\ Ran(roads) /\ roads.t = buildings.t
    /\ Ran(cranes) /\ cranes.t = buildings.t

\* C9: the phase a callback computes for elapsed time t is the phase of
\* t + CYCLE_SECONDS, and it lies in [0, 1).
C9_PhasePeriodic ==
    \A l \in {[t |-> blueprint.t, phase |-> blueprint.phase],
              [t |-> buildings.t, phase |-> buildings.phase],
              [t |-> roads.t, phase |-> roads.phase],
              [t |-> cranes.t, phase |-> cranes.phase],
              [t |-> cam.t, phase |-> cam.phase]} :
        Ran(l) => l.phase = Phase(NextCycle(l.t)) /\ IsPhase(l.phase)

C9_Witness ==
    /\ Ran(cam) /\ RLt(I(CYCLE_SECONDS), cam.t) /\ RLt(I(0), cam.phase)

\* C10: in every frame whose phase lies in [0.00, 0.20) the opacities written
\* for the blueprint grid, foundations, frames, skins, roads, sidewalks, trees
\* and cranes are all 0.
C10_GroundOnlyOpening ==
    /\ (Ran(blueprint) /\ RLt(blueprint.phase, R(2, 10))) => gridMat.opacity = I(0)
    /\ (Ran(buildings) /\ RLt(buildings.phase, R(2, 10)))
          => fdMat.opacity = I(0) /\ fMat.opacity = I(0) /\ sMat.opacity = I(0)
    /\ (Ran(roads) /\ RLt(roads.phase, R(2, 10)))
          => /\ matRoad.opacity = I(0) /\ matSidewalk.opacity = I(0)
             /\ matTreeTrunk.opacity = I(0) /\ matTreeLeaf.opacity = I(0)
    /\ (Ran(cranes) /\ RLt(cranes.phase, R(2, 10))) => craneMat.opacity = I(0)

====
